---- MODULE Spec2Model ----
(***************************************************************************)
(* RareGen publisher: the batch worker (collector + broadcaster loops over *)
(* publish_jobs and utxos), the admission endpoint POST /v1/publish, and   *)
(* the TokenBucket rate limiter.                                           *)
(*                                                                         *)
(* Every SQL statement is one atomic step (autocommit, READ COMMITTED),    *)
(* except the reservation UPDATE, whose FOR UPDATE SKIP LOCKED subselect   *)
(* and whose SET are two steps joined by a row lock, as PostgreSQL         *)
(* executes them.  Time in the worker model is counted in minutes.         *)
(*                                                                         *)
(* Spec        two worker processes that may die and be restarted          *)
(* SpecLive    the same processes without crashes, under fair scheduling   *)
(* SpecRecover one worker that dies and is restarted, under fair scheduling*)
(* SpecPool    one worker and an operator who imports outputs              *)
(* SpecAdmit   concurrent POST /v1/publish requests                        *)
(* SpecBucket  one caller of TokenBucket.take                              *)
(* SpecBucketApi  the bucket under take, available and reset calls         *)
(* SpecBucketLive one caller of take while time advances, fair scheduling  *)
(* SpecRate    one worker whose take(1) runs in its bucket                 *)
(* SpecManager one worker and the pool manager's import and reservation    *)
(* SpecCollect two collectors whose claim statements interleave            *)
(* SpecBacklog one worker started on a backlog of queued jobs              *)
(* SpecRepl    the UTXO replenisher: overlapping runs, restarts, a ledger  *)
(* SpecSingle  the batch worker next to the BullMQ single-job worker       *)
(***************************************************************************)
EXTENDS Integers, Sequences, FiniteSets, TLC

\* ---------------------------------------------------------------- bounds
NumJobs == 2
NumUtxos == 2
MaxTime == 6
MaxStarts == 2
NumReqs == 2
MaxMs == 8
\* Stand-ins for MAX_TX_PER_3S = 500 tokens and its window of 3000 ms.
BucketCapacity == 2
BucketWindowMs == 4

MaxTaken == 4

MaxQueued == 3

\* The replenisher: funding outputs at the start, split transactions handed
\* to the ledger, the clock in check intervals, and stand-ins for
\* TARGET_SPLIT_SIZE = 10000 outputs, MIN_POOL_SIZE = 5000 outputs and
\* SPLIT_COOLDOWN_MS / CHECK_INTERVAL_MS = 20 intervals.
NumFunds == 2
MaxSplits == 2
MaxRTime == 3
SplitK == 2
MinPool == 2
CooldownTicks == 2

\* ------------------------------------------------------ program constants
MAX_BATCH_SIZE == 2
TTL_MINUTES == 2
LEASE_MINUTES == 5
SLEEP_SLICE_MS == 250
MAX_AGE_MS == 600000

JobIds == 1..NumJobs
UtxoIds == 1..NumUtxos
Procs == {"w1", "w2"}

Reqs == 1..NumReqs
Keys == {"k1", "k2", "kx"}
ActiveKeys == {"k1", "k2"}
NonceVals == {"n1", "n2"}
RecIds == {"REC-1", "REC-2"}

NULL == -1
NoTx == <<0, 0>>
NoProc == "nobody"

\* now - record.timestamp, in milliseconds, of the intents that arrive: at
\* and one past the 10 minute mark, in the past and in the future.
Ages == {-(MAX_AGE_MS + 1), -MAX_AGE_MS, MAX_AGE_MS, MAX_AGE_MS + 1}

\* A publishing intent: signer.pubkey, record.nonce, record.recordId,
\* whether signature.sig verifies over the record hash, whether the body
\* passes the JSON schema, and the age of record.timestamp on arrival.
\* Every signer, nonce, record and signature outcome with a timestamp at
\* the 10 minute mark; one intent with each of the other timestamps; one
\* body that fails the schema.
Payloads ==
    [key : Keys, nonce : NonceVals, rid : RecIds, sigOk : BOOLEAN,
     schemaOk : {TRUE}, age : {MAX_AGE_MS}]
    \cup [key : {"k1"}, nonce : {"n1"}, rid : {"REC-1"}, sigOk : {TRUE},
          schemaOk : {TRUE}, age : Ages]
    \cup [key : {"k1"}, nonce : {"n1"}, rid : {"REC-1"}, sigOk : {TRUE},
          schemaOk : {FALSE}, age : {MAX_AGE_MS}]

NoPayload == [key |-> "none", nonce |-> "none", rid |-> "none", sigOk |-> FALSE,
              schemaOk |-> FALSE, age |-> 0]

NoResp == [code |-> 0, kind |-> "none", jobId |-> 0]

\* A request: its position in the handler, its body, the job id it got,
\* its response, and the tables it has written.
NoReq == [pc |-> "idle", payload |-> NoPayload, jobId |-> 0, resp |-> NoResp,
          wrote |-> {}]

\* Tokens are counted in units of 1/BucketWindowMs token, so that the refill
\* of capacity/window tokens per millisecond is a whole number of units.
TokenUnit == BucketWindowMs

CapacityUnits == BucketCapacity * TokenUnit

NoTake == [pc |-> "idle", n |-> 0, wakeAt |-> 0]

\* The batch worker: the clock, the publish_jobs and utxos tables, row locks
\* of statements in flight, each process's position and locals, the batch id
\* source, the ledger's spent outputs, and the jobs ever claimed into sending.
VARIABLES now, jobs, utxos, rowLock, pc, cur, nextBatch, starts,
          chainSpent, everSending

\* POST /v1/publish: the nonces table, who admitted each publish_jobs row,
\* the BullMQ queue, the audit log, and each request's position.
VARIABLES nonces, admitted, queue, audit, req

\* TokenBucket: the millisecond clock, the bucket's fields, the caller of
\* take(n), and the tokens handed out at each millisecond.
VARIABLES ms, tokens, lastRefillMs, taker, takenAt

\* The replenisher: its clock, the funding and change rows of utxos, the
\* available 100-sat publish rows as (txid, vout), the module variable
\* lastSplitTime, each run of checkAndReplenish in flight, and the split
\* transactions the ledger was handed.
VARIABLES rnow, funds, units, lastSplitTime, run, splitLog

replVars == <<rnow, funds, units, lastSplitTime, run, splitLog>>

workerVars == <<now, jobs, utxos, rowLock, pc, cur, nextBatch, starts,
                chainSpent, everSending>>

admitVars == <<nonces, admitted, queue, audit, req>>

bucketVars == <<ms, tokens, lastRefillMs, taker, takenAt>>

vars == <<workerVars, admitVars, bucketVars, replVars>>

notWorker == <<admitVars, bucketVars, replVars>>

notRepl == <<workerVars, admitVars, bucketVars>>

notAdmit == <<now, utxos, rowLock, pc, cur, nextBatch, starts, chainSpent,
              everSending, bucketVars, replVars>>

notBucket == <<workerVars, admitVars, replVars>>

\* A publish_jobs row as createPublishJob inserts it; id is the row's
\* index, hash is record_hash, createdAt is the created_at default NOW();
\* locks holds, as <<process, batch id>>, the collectBatch statements in
\* flight that have locked the row.
QueuedJob(h, t) == [status |-> "queued", hash |-> h, createdAt |-> t,
                    batch |-> 0, seq |-> 0, txid |-> NoTx, startedAt |-> NULL,
                    err |-> "none", locks |-> {}]

\* created_at of the next row when its INSERT started after every earlier one.
StampAfter(js) == 2 * (Len(js) + 1)

\* created_at of the next row when its INSERT started just before the
\* previous row's INSERT and drew its id from the sequence after it.
StampBefore(js) == 2 * (Len(js) + 1) - 3

\* A utxos row of the publish pool.
FreshUtxo == [status |-> "available", reservedUntil |-> NULL, dirty |-> FALSE,
              spentBy |-> NoTx, purpose |-> "publish", satoshis |-> 100]

\* A broadcaster's locals: the batch and job it works on, the UTXO that
\* reserveUTXO returned and the reserved_until of that reservation, whether
\* its take(1) has returned with no broadcast call made since, the txid of
\* its broadcast, and the error it caught.
NoCur == [batch |-> 0, job |-> 0, utxo |-> 0, lease |-> NULL, token |-> FALSE,
          txid |-> NoTx, err |-> "none"]

\* The row of S with the least created_at.
Oldest(js, S) == CHOOSE x \in S : \A y \in S : js[x].createdAt <= js[y].createdAt

\* The batch worker before any process has started.
WorkerIdle ==
    /\ now = 0
    /\ utxos = [u \in UtxoIds |-> FreshUtxo]
    /\ rowLock = [u \in UtxoIds |-> NoProc]
    /\ pc = [p \in Procs |-> "down"]
    /\ cur = [p \in Procs |-> NoCur]
    /\ nextBatch = 1
    /\ starts = 0
    /\ chainSpent = {}
    /\ everSending = {}

\* The runs of checkAndReplenish that setInterval may have in flight.
Runs == {"r1", "r2"}

\* A run's locals: its position, the interval in which the timer started
\* it, the source row and the txid of its split, the output it inserts
\* next, and the rows it has inserted.
NoRun == [pc |-> "idle", started |-> NULL, src |-> 0, txid |-> 0, vout |-> 0,
          units |-> 0, change |-> 0]

\* A funding or change row of utxos.  size stands for satoshis: small is
\* at most 1,000,000; short is above it but below the outputs plus the
\* fee; dust leaves a change of at most 546; ample leaves more.
FundRow(pu, sz, tx) == [status |-> "available", purpose |-> pu, size |-> sz,
                        txid |-> tx]

\* The replenisher is not running.
ReplIdle ==
    /\ rnow = 0
    /\ funds = [i \in 1..NumFunds |-> FundRow("funding", "ample", 0)]
    /\ units = {}
    /\ lastSplitTime = NULL
    /\ run = [r \in Runs |-> NoRun]
    /\ splitLog = <<>>

\* No request has arrived.
AdmitIdle ==
    /\ nonces = {}
    /\ admitted = <<>>
    /\ queue = {}
    /\ audit = <<>>
    /\ req = [r \in Reqs |-> NoReq]

\* new TokenBucket(capacity, capacity / window) at time 0.
BucketInit ==
    /\ ms = 0
    /\ tokens = CapacityUnits
    /\ lastRefillMs = 0
    /\ taker = NoTake
    /\ takenAt = [t \in 0..MaxMs |-> 0]

\* The batch worker over an empty publish_jobs table, into which up to
\* NumJobs jobs are admitted, and a pool of NumUtxos inputs.
Init ==
    /\ jobs = <<>>
    /\ WorkerIdle
    /\ AdmitIdle
    /\ ReplIdle
    /\ BucketInit

\* ------------------------------------------------------------ utxo pool

\* The sweep statement of reserveUTXO: expired reservations become available.
\* The sweep with reserved_until <= NOW(): a lease is released in the very
\* minute it runs out.
SweepRowsAtExpiry(us, t) ==
    [u \in DOMAIN us |->
        IF us[u].status = "reserved" /\ us[u].reservedUntil # NULL
           /\ us[u].reservedUntil <= t
        THEN [us[u] EXCEPT !.status = "available", !.reservedUntil = NULL]
        ELSE us[u]]

SweepRows(us, t) ==
    [u \in DOMAIN us |->
        IF us[u].status = "reserved" /\ us[u].reservedUntil # NULL
           /\ us[u].reservedUntil < t
        THEN [us[u] EXCEPT !.status = "available", !.reservedUntil = NULL]
        ELSE us[u]]

\* ORDER BY satoshis ASC, created_at ASC
UtxoBefore(us, a, b) ==
    \/ us[a].satoshis < us[b].satoshis
    \/ us[a].satoshis = us[b].satoshis /\ a <= b

\* The subselect without FOR UPDATE SKIP LOCKED: a row locked by a statement
\* in flight is still returned.
SelectableNoSkip(us, locks) ==
    {u \in DOMAIN us : /\ us[u].purpose = "publish"
                       /\ us[u].status = "available"
                       /\ us[u].dirty = FALSE}

\* Rows the subselect may return: publish, available, not dirty, and not
\* locked by another statement (SKIP LOCKED).
Selectable(us, locks) ==
    {u \in DOMAIN us : /\ us[u].purpose = "publish"
                       /\ us[u].status = "available"
                       /\ us[u].dirty = FALSE
                       /\ locks[u] = NoProc}

\* LIMIT 1 of the ordered subselect; 0 when no row qualifies.
SelectUtxo(us, locks) ==
    LET S == Selectable(us, locks)
    IN IF S = {} THEN 0
       ELSE CHOOSE u \in S : \A v \in S : UtxoBefore(us, u, v)

ReserveRow(r, t) ==
    [r EXCEPT !.status = "reserved", !.reservedUntil = t + LEASE_MINUTES]

SpentRow(r, tx) == [r EXCEPT !.status = "spent", !.spentBy = tx]

DirtyRow(r) ==
    [r EXCEPT !.dirty = TRUE, !.status = "available", !.reservedUntil = NULL]

ReleasedRow(r) == [r EXCEPT !.status = "available", !.reservedUntil = NULL]

\* ----------------------------------------------------------- job queries

ActiveStatus == {"processing_batch", "sending"}

\* getActiveBatch ordering by MIN(created_at) DESC instead of ASC.
ActiveBatchNewest(js) ==
    LET A == {j \in DOMAIN js : js[j].status \in ActiveStatus /\ js[j].batch # 0}
    IN IF A = {} THEN 0
       ELSE js[CHOOSE x \in A : \A y \in A : js[x].createdAt >= js[y].createdAt].batch

\* getActiveBatch: the batch whose active jobs have the least created_at.
ActiveBatch(js) ==
    LET A == {j \in DOMAIN js : js[j].status \in ActiveStatus /\ js[j].batch # 0}
    IN IF A = {} THEN 0 ELSE js[Oldest(js, A)].batch

\* claimNextJob ordering by batch_seq DESC instead of ASC.
NextInBatchDesc(js, b) ==
    LET C == {j \in DOMAIN js : js[j].batch = b /\ js[j].status = "processing_batch"}
    IN IF C = {} THEN 0
       ELSE CHOOSE j \in C : \A k \in C : js[j].seq >= js[k].seq

\* claimNextJob's subselect: lowest batch_seq still in processing_batch.
NextInBatch(js, b) ==
    LET C == {j \in DOMAIN js : js[j].batch = b /\ js[j].status = "processing_batch"}
    IN IF C = {} THEN 0
       ELSE CHOOSE j \in C : \A k \in C : js[j].seq <= js[k].seq

\* to_claim without its LIMIT.
OldestNoLimit(js, S, n) == S

\* collectBatch's to_claim: ORDER BY created_at ASC LIMIT n over the rows S.
RECURSIVE OldestN(_, _, _)
OldestN(js, S, n) ==
    IF n = 0 \/ S = {} THEN {}
    ELSE LET m == Oldest(js, S) IN {m} \cup OldestN(js, S \ {m}, n - 1)

\* row_number() OVER (ORDER BY id)
RowNumber(S, j) == Cardinality({k \in S : k <= j})

Unstuck(js, t) ==
    [j \in DOMAIN js |->
        IF js[j].status = "sending" /\ js[j].startedAt # NULL
           /\ js[j].startedAt < t - TTL_MINUTES
        THEN [js[j] EXCEPT !.status = "processing_batch", !.startedAt = NULL]
        ELSE js[j]]

\* ---------------------------------------------------------------- actions

Up(p) == pc[p] # "down"

\* startBatchWorker: unstickJobs, then the collector timer and the broadcaster.
Start(p) ==
    /\ pc[p] = "down"
    /\ starts < MaxStarts
    /\ starts' = starts + 1
    /\ jobs' = Unstuck(jobs, now)
    /\ pc' = [pc EXCEPT ![p] = "getBatch"]
    /\ UNCHANGED notWorker
    /\ UNCHANGED <<now, utxos, rowLock, cur, nextBatch, chainSpent, everSending>>

\* The process dies; a statement in flight is rolled back and its lock dropped.
Crash(p) ==
    /\ Up(p)
    /\ pc' = [pc EXCEPT ![p] = "down"]
    /\ cur' = [cur EXCEPT ![p] = NoCur]
    /\ rowLock' = [u \in UtxoIds |-> IF rowLock[u] = p THEN NoProc ELSE rowLock[u]]
    /\ UNCHANGED notWorker
    /\ UNCHANGED <<now, jobs, utxos, nextBatch, starts, chainSpent, everSending>>

\* Time passes; observable only while some lease or sending stamp exists.
Tick ==
    /\ now < MaxTime
    /\ \/ \E u \in UtxoIds : utxos[u].status = "reserved"
       \/ \E j \in DOMAIN jobs : jobs[j].status = "sending"
    /\ now' = now + 1
    /\ UNCHANGED notWorker
    /\ UNCHANGED <<jobs, utxos, rowLock, pc, cur, nextBatch, starts, chainSpent,
                   everSending>>

\* The API admits an intent: createPublishJob inserts a queued row.  Two
\* INSERTs in flight at once take NOW() and the next id in either order;
\* both rows are committed before the collector's next tick.
InsertJob ==
    /\ Len(jobs) + 1 \in JobIds
    /\ \E t \in {StampAfter(jobs), StampBefore(jobs)} :
         /\ t = StampBefore(jobs) =>
               Len(jobs) > 0 /\ jobs[Len(jobs)].status = "queued"
         /\ jobs' = Append(jobs, QueuedJob(<<"rec", Len(jobs) + 1>>, t))
    /\ UNCHANGED notWorker
    /\ UNCHANGED <<now, utxos, rowLock, pc, cur, nextBatch, starts, chainSpent,
                   everSending>>

\* collectBatch, one timer tick that finds queued jobs.
CollectBatch(p) ==
    /\ Up(p)
    /\ LET Q == {j \in DOMAIN jobs : jobs[j].status = "queued"}
           T == OldestN(jobs, Q, MAX_BATCH_SIZE)
       IN /\ T # {}
          /\ jobs' = [j \in DOMAIN jobs |->
                        IF j \in T
                        THEN [jobs[j] EXCEPT !.status = "processing_batch",
                                             !.batch = nextBatch,
                                             !.seq = RowNumber(T, j)]
                        ELSE jobs[j]]
    /\ nextBatch' = nextBatch + 1
    /\ UNCHANGED notWorker
    /\ UNCHANGED <<now, utxos, rowLock, pc, cur, starts, chainSpent, everSending>>

\* broadcasterLoop: getActiveBatch found a batch.
GetActiveBatch(p) ==
    /\ pc[p] = "getBatch"
    /\ ActiveBatch(jobs) # 0
    /\ cur' = [cur EXCEPT ![p] = [NoCur EXCEPT !.batch = ActiveBatch(jobs)]]
    /\ pc' = [pc EXCEPT ![p] = "claim"]
    /\ UNCHANGED notWorker
    /\ UNCHANGED <<now, jobs, utxos, rowLock, nextBatch, starts, chainSpent,
                   everSending>>

\* claimNextJob: processing_batch -> sending, or the batch is drained.
ClaimNextJob(p) ==
    /\ pc[p] = "claim"
    /\ LET j == NextInBatch(jobs, cur[p].batch)
       IN IF j = 0
          THEN /\ pc' = [pc EXCEPT ![p] = "getBatch"]
               /\ cur' = [cur EXCEPT ![p] = NoCur]
               /\ UNCHANGED <<jobs, everSending>>
          ELSE /\ jobs' = [jobs EXCEPT ![j].status = "sending", ![j].startedAt = now]
               /\ everSending' = everSending \cup {j}
               /\ cur' = [cur EXCEPT ![p] = [NoCur EXCEPT !.batch = cur[p].batch, !.job = j]]
               /\ pc' = [pc EXCEPT ![p] = "sweep"]
    /\ UNCHANGED notWorker
    /\ UNCHANGED <<now, utxos, rowLock, nextBatch, starts, chainSpent>>

\* reserveUTXO, first statement.
ReserveSweep(p) ==
    /\ pc[p] = "sweep"
    /\ utxos' = SweepRows(utxos, now)
    /\ pc' = [pc EXCEPT ![p] = "select"]
    /\ UNCHANGED notWorker
    /\ UNCHANGED <<now, jobs, rowLock, cur, nextBatch, starts, chainSpent,
                   everSending>>

\* reserveUTXO, second statement, the locking subselect.  No row: processJob
\* throws before its try block and broadcasterLoop's catch resumes the loop.
ReserveSelect(p) ==
    /\ pc[p] = "select"
    /\ LET u == SelectUtxo(utxos, rowLock)
       IN IF u = 0
          THEN /\ pc' = [pc EXCEPT ![p] = "getBatch"]
               /\ cur' = [cur EXCEPT ![p] = NoCur]
               /\ UNCHANGED rowLock
          ELSE /\ rowLock' = [rowLock EXCEPT ![u] = p]
               /\ cur' = [cur EXCEPT ![p].utxo = u]
               /\ pc' = [pc EXCEPT ![p] = "reserve"]
    /\ UNCHANGED notWorker
    /\ UNCHANGED <<now, jobs, utxos, nextBatch, starts, chainSpent, everSending>>

\* reserveUTXO, second statement, SET ... RETURNING and commit.
ReserveUpdate(p) ==
    /\ pc[p] = "reserve"
    /\ LET u == cur[p].utxo
       IN /\ utxos' = [utxos EXCEPT ![u] = ReserveRow(utxos[u], now)]
          /\ rowLock' = [rowLock EXCEPT ![u] = NoProc]
    /\ cur' = [cur EXCEPT ![p].lease = now + LEASE_MINUTES]
    /\ pc' = [pc EXCEPT ![p] = "build"]
    /\ UNCHANGED notWorker
    /\ UNCHANGED <<now, jobs, nextBatch, starts, chainSpent, everSending>>

\* processJob step 2-3: build the transaction (it may throw), then take(1).
BuildAndTake(p) ==
    /\ pc[p] = "build"
    /\ \/ /\ pc' = [pc EXCEPT ![p] = "broadcast"]
          /\ cur' = [cur EXCEPT ![p].token = TRUE]
       \/ /\ pc' = [pc EXCEPT ![p] = "catchUtxo"]
          /\ cur' = [cur EXCEPT ![p].err = "build"]
    /\ UNCHANGED notWorker
    /\ UNCHANGED <<now, jobs, utxos, rowLock, nextBatch, starts, chainSpent, everSending>>

\* The transaction built from a pool input and a job's record hash.
TxOf(u, j) == <<u, j>>

\* processJob step 4: broadcastTx.  The ledger accepts a transaction whose
\* input is unspent and rejects one whose input is spent, with a message
\* that names the mempool or one that does not; the call may also fail
\* before reaching the ledger.
Broadcast(p) ==
    /\ pc[p] = "broadcast"
    /\ LET u == cur[p].utxo
       IN \/ /\ u \notin chainSpent
             /\ chainSpent' = chainSpent \cup {u}
             /\ cur' = [cur EXCEPT ![p].txid = TxOf(u, cur[p].job),
                                   ![p].token = FALSE]
             /\ pc' = [pc EXCEPT ![p] = "markSent"]
          \/ /\ u \in chainSpent
             /\ \E e \in {"mempool", "rejected"} :
                    cur' = [cur EXCEPT ![p].err = e, ![p].token = FALSE]
             /\ pc' = [pc EXCEPT ![p] = "catchUtxo"]
             /\ UNCHANGED chainSpent
          \/ /\ cur' = [cur EXCEPT ![p].err = "network", ![p].token = FALSE]
             /\ pc' = [pc EXCEPT ![p] = "catchUtxo"]
             /\ UNCHANGED chainSpent
    /\ UNCHANGED notWorker
    /\ UNCHANGED <<now, jobs, utxos, rowLock, nextBatch, starts, everSending>>

SentJob(r, tx) == [r EXCEPT !.status = "sent", !.txid = tx]

FailedJob(r) == [r EXCEPT !.status = "failed", !.err = "BROADCAST_ERROR"]

\* processJob step 5: UPDATE publish_jobs SET status = 'sent' WHERE id = $2.
MarkJobSent(p) ==
    /\ pc[p] = "markSent"
    /\ jobs' = [jobs EXCEPT ![cur[p].job] = SentJob(jobs[cur[p].job], cur[p].txid)]
    /\ pc' = [pc EXCEPT ![p] = "markSpent"]
    /\ UNCHANGED notWorker
    /\ UNCHANGED <<now, utxos, rowLock, cur, nextBatch, starts, chainSpent, everSending>>

\* A single-row UPDATE waits while another statement holds the row lock.
RowFree(p, u) == rowLock[u] \in {NoProc, p}

\* processJob step 6: markUTXOSpent; the inner loop then claims the next job.
MarkUTXOSpent(p) ==
    /\ pc[p] = "markSpent"
    /\ RowFree(p, cur[p].utxo)
    /\ utxos' = [utxos EXCEPT ![cur[p].utxo] = SpentRow(utxos[cur[p].utxo], cur[p].txid)]
    /\ cur' = [cur EXCEPT ![p] = [NoCur EXCEPT !.batch = cur[p].batch]]
    /\ pc' = [pc EXCEPT ![p] = "claim"]
    /\ UNCHANGED notWorker
    /\ UNCHANGED <<now, jobs, rowLock, nextBatch, starts, chainSpent, everSending>>

\* processJob catch: markUTXODirty on a mempool message, else releaseUTXO.
CatchUtxo(p) ==
    /\ pc[p] = "catchUtxo"
    /\ RowFree(p, cur[p].utxo)
    /\ utxos' = [utxos EXCEPT ![cur[p].utxo] =
                    IF cur[p].err = "mempool" THEN DirtyRow(utxos[cur[p].utxo])
                    ELSE ReleasedRow(utxos[cur[p].utxo])]
    /\ pc' = [pc EXCEPT ![p] = "catchJob"]
    /\ UNCHANGED notWorker
    /\ UNCHANGED <<now, jobs, rowLock, cur, nextBatch, starts, chainSpent, everSending>>

\* processJob catch: UPDATE publish_jobs SET status = 'failed' WHERE id = $3.
CatchJob(p) ==
    /\ pc[p] = "catchJob"
    /\ jobs' = [jobs EXCEPT ![cur[p].job] = FailedJob(jobs[cur[p].job])]
    /\ cur' = [cur EXCEPT ![p] = [NoCur EXCEPT !.batch = cur[p].batch]]
    /\ pc' = [pc EXCEPT ![p] = "claim"]
    /\ UNCHANGED notWorker
    /\ UNCHANGED <<now, utxos, rowLock, nextBatch, starts, chainSpent, everSending>>

Next ==
    \/ InsertJob
    \/ \E p \in Procs : Start(p)
    \/ \E p \in Procs : Crash(p)
    \/ Tick
    \/ \E p \in Procs : CollectBatch(p)
    \/ \E p \in Procs : GetActiveBatch(p)
    \/ \E p \in Procs : ClaimNextJob(p)
    \/ \E p \in Procs : ReserveSweep(p)
    \/ \E p \in Procs : ReserveSelect(p)
    \/ \E p \in Procs : ReserveUpdate(p)
    \/ \E p \in Procs : BuildAndTake(p)
    \/ \E p \in Procs : Broadcast(p)
    \/ \E p \in Procs : MarkJobSent(p)
    \/ \E p \in Procs : MarkUTXOSpent(p)
    \/ \E p \in Procs : CatchUtxo(p)
    \/ \E p \in Procs : CatchJob(p)

Spec == Init /\ [][Next]_vars

\* ------------------------------------------- the worker without crashes

\* The pool as earlier publishing left it: some inputs are already spent.
UsedPool(S) ==
    [u \in UtxoIds |-> IF u \in S THEN SpentRow(FreshUtxo, TxOf(u, 0)) ELSE FreshUtxo]

LiveInit ==
    /\ jobs = <<>>
    /\ now = 0
    /\ \E S \in SUBSET UtxoIds : utxos = UsedPool(S) /\ chainSpent = S
    /\ rowLock = [u \in UtxoIds |-> NoProc]
    /\ pc = [p \in Procs |-> "down"]
    /\ cur = [p \in Procs |-> NoCur]
    /\ nextBatch = 1
    /\ starts = 0
    /\ everSending = {}
    /\ AdmitIdle
    /\ ReplIdle
    /\ BucketInit

\* One step of process p's broadcasterLoop.
BroadcasterStep(p) ==
    \/ GetActiveBatch(p)
    \/ ClaimNextJob(p)
    \/ ReserveSweep(p)
    \/ ReserveSelect(p)
    \/ ReserveUpdate(p)
    \/ BuildAndTake(p)
    \/ Broadcast(p)
    \/ MarkJobSent(p)
    \/ MarkUTXOSpent(p)
    \/ CatchUtxo(p)
    \/ CatchJob(p)

LiveNext ==
    \/ InsertJob
    \/ Tick
    \/ \E p \in Procs : Start(p)
    \/ \E p \in Procs : CollectBatch(p)
    \/ \E p \in Procs : BroadcasterStep(p)

\* Every process is started, its collector timer fires and its broadcaster
\* loop keeps running; the clock is not required to stop.
LiveFairness ==
    \A p \in Procs :
        /\ WF_vars(Start(p))
        /\ WF_vars(CollectBatch(p))
        /\ WF_vars(BroadcasterStep(p))

SpecLive == LiveInit /\ [][LiveNext]_vars /\ LiveFairness

\* --------------------------------- one worker that dies and is restarted

\* The process dies while a restart is still to come.
CrashBeforeRestart(p) == starts < MaxStarts /\ Crash(p)

RecoverNext ==
    \/ InsertJob
    \/ Tick
    \/ Start("w1")
    \/ CrashBeforeRestart("w1")
    \/ CollectBatch("w1")
    \/ BroadcasterStep("w1")

\* The process is restarted after it died, and its loops keep running.
RecoverFairness ==
    /\ WF_vars(Start("w1"))
    /\ WF_vars(CollectBatch("w1"))
    /\ WF_vars(BroadcasterStep("w1"))

SpecRecover == LiveInit /\ [][RecoverNext]_vars /\ RecoverFairness

\* ------------------------------------------- the pool under administration

\* UTXOPoolManager.insertUTXO for a (txid, vout) the pool already holds:
\* ON CONFLICT (txid, vout) DO UPDATE SET status = 'available'.
InsertUTXO(u) ==
    /\ rowLock[u] = NoProc
    /\ utxos' = [utxos EXCEPT ![u].status = "available"]
    /\ UNCHANGED notWorker
    /\ UNCHANGED <<now, jobs, rowLock, pc, cur, nextBatch, starts, chainSpent,
                   everSending>>

\* One worker, and an operator who imports outputs into the pool.
PoolNext ==
    \/ InsertJob
    \/ Tick
    \/ Start("w1")
    \/ CollectBatch("w1")
    \/ BroadcasterStep("w1")
    \/ \E u \in UtxoIds : InsertUTXO(u)

SpecPool == LiveInit /\ [][PoolNext]_vars

\* ------------------------------------------ collectors running at once

\* to_claim without FOR UPDATE SKIP LOCKED: every queued row qualifies,
\* also one that another collectBatch statement in flight has selected.
ClaimableNoSkip(js) == {j \in DOMAIN js : js[j].status = "queued"}

\* The rows to_claim may take: WHERE status = 'queued' ... FOR UPDATE SKIP
\* LOCKED.
Claimable(js) ==
    {j \in DOMAIN js : js[j].status = "queued" /\ js[j].locks = {}}

\* The rows that the collectBatch statement of process p for batch b holds.
ClaimedBy(js, p, b) == {j \in DOMAIN js : <<p, b>> \in js[j].locks}

\* collectBatch, first half of its statement: generateBatchId, then
\* to_claim selects and locks the oldest queued rows.
CollectSelect(p) ==
    /\ Up(p)
    /\ \A j \in DOMAIN jobs : \A l \in jobs[j].locks : l[1] # p
    /\ LET T == OldestN(jobs, Claimable(jobs), MAX_BATCH_SIZE)
       IN /\ T # {}
          /\ jobs' = [j \in DOMAIN jobs |->
                        IF j \in T
                        THEN [jobs[j] EXCEPT !.locks = @ \cup {<<p, nextBatch>>}]
                        ELSE jobs[j]]
    /\ nextBatch' = nextBatch + 1
    /\ UNCHANGED notWorker
    /\ UNCHANGED <<now, utxos, rowLock, pc, cur, starts, chainSpent, everSending>>

\* collectBatch, second half: numbered, the UPDATE of the selected rows,
\* and the commit that drops their locks.
CollectUpdate(p) ==
    /\ \E b \in 1..nextBatch :
         LET T == ClaimedBy(jobs, p, b)
         IN /\ T # {}
            /\ jobs' = [j \in DOMAIN jobs |->
                          IF j \in T
                          THEN [jobs[j] EXCEPT !.status = "processing_batch",
                                               !.batch = b,
                                               !.seq = RowNumber(T, j),
                                               !.locks = @ \ {<<p, b>>}]
                          ELSE jobs[j]]
    /\ UNCHANGED notWorker
    /\ UNCHANGED <<now, utxos, rowLock, pc, cur, nextBatch, starts, chainSpent,
                   everSending>>

\* Two worker processes whose collector timers fire while the other's
\* collectBatch statement is in flight and the broadcasters are at work,
\* over a pool into which spent outputs may be imported again.
CollectNext ==
    \/ InsertJob
    \/ \E p \in Procs : Start(p)
    \/ \E p \in Procs : CollectSelect(p)
    \/ \E p \in Procs : CollectUpdate(p)
    \/ \E p \in Procs : BroadcasterStep(p)
    \/ \E u \in UtxoIds : InsertUTXO(u)

SpecCollect == Init /\ [][CollectNext]_vars

\* ------------------------------------- a backlog larger than one batch

\* The publish_jobs tables that n admissions leave behind when no collector
\* tick fell between them: every row queued, created_at as InsertJob stamps.
QueuedTables(n) ==
    {[i \in 1..n |-> QueuedJob(<<"rec", i>>, st[i])] :
        st \in {f \in [1..n -> 0..(2 * n)] :
                  \A i \in 1..n : f[i] = 2 * i \/ (i > 1 /\ f[i] = 2 * i - 3)}}

\* The workers start on a backlog of up to MaxQueued jobs.
BacklogInit ==
    /\ jobs \in UNION {QueuedTables(n) : n \in 0..MaxQueued}
    /\ WorkerIdle
    /\ AdmitIdle
    /\ ReplIdle
    /\ BucketInit

BacklogNext ==
    \/ \E p \in Procs : Start(p)
    \/ \E p \in Procs : CollectBatch(p)
    \/ \E p \in Procs : BroadcasterStep(p)
    \/ \E u \in UtxoIds : InsertUTXO(u)

SpecBacklog == BacklogInit /\ [][BacklogNext]_vars

\* The subselect of UTXOPoolManager.reserveUTXO(purpose): WHERE purpose = $1
\* AND status = 'available' ORDER BY created_at ASC LIMIT 1 FOR UPDATE SKIP
\* LOCKED; 0 when no row qualifies.
ManagerSelect(us, locks, purpose) ==
    LET A == {u \in DOMAIN us : /\ us[u].purpose = purpose
                                /\ us[u].status = "available"
                                /\ locks[u] = NoProc}
    IN IF A = {} THEN 0 ELSE CHOOSE u \in A : \A v \in A : u <= v

\* UTXOPoolManager.reserveUTXO(purpose) returns a row: SET status =
\* 'reserved', reserved_at = NOW(); reserved_until is not written.
ManagerReserve(purpose) ==
    /\ ManagerSelect(utxos, rowLock, purpose) # 0
    /\ utxos' = [utxos EXCEPT ![ManagerSelect(utxos, rowLock, purpose)].status = "reserved"]
    /\ UNCHANGED notWorker
    /\ UNCHANGED <<now, jobs, rowLock, pc, cur, nextBatch, starts, chainSpent,
                   everSending>>

\* UTXOPoolManager.markSpent(id), called by the publishing script for the
\* row it reserved once its broadcast was accepted: SET status = 'spent',
\* spent_at = NOW() WHERE id = $1; spent_by_txid is not written.
ManagerMarkSpent(u) ==
    /\ utxos[u].status = "reserved"
    /\ \A p \in Procs : cur[p].utxo # u
    /\ rowLock[u] = NoProc
    /\ u \notin chainSpent
    /\ chainSpent' = chainSpent \cup {u}
    /\ utxos' = [utxos EXCEPT ![u].status = "spent"]
    /\ UNCHANGED notWorker
    /\ UNCHANGED <<now, jobs, rowLock, pc, cur, nextBatch, starts, everSending>>

\* One worker, and the pool manager's import, reservation and spending
\* calls made on the worker's pool.
ManagerNext ==
    \/ PoolNext
    \/ ManagerReserve("publish")
    \/ \E u \in UtxoIds : ManagerMarkSpent(u)

SpecManager == LiveInit /\ [][ManagerNext]_vars

\* ------------------------------------------------ POST /v1/publish

\* hashJSON(record): SHA-256 over the canonical record body, which holds the
\* recordId and the nonce and not the signer; one value per distinct body.
RecordHash(pl) == <<"sha256", pl.rid, pl.nonce>>

\* SELECT id FROM nonces WHERE pubkey_hex = $1 AND nonce = $2
NonceUsed(ns, k, n) == <<k, n>> \in ns

\* INSERT INTO nonces ... ON CONFLICT DO NOTHING
NonceInserted(ns, k, n) == ns \cup {<<k, n>>}

\* The record_hash UNIQUE constraint rejects the INSERT.
HashTaken(js, h) == \E i \in DOMAIN js : js[i].hash = h

Respond(r, code, kind, id) ==
    [req EXCEPT ![r].pc = "done",
                ![r].resp = [code |-> code, kind |-> kind, jobId |-> id]]

\* A request arrives at the handler.
Receive(r, pl) ==
    /\ req[r].pc = "idle"
    /\ req' = [req EXCEPT ![r].pc = "validate", ![r].payload = pl]
    /\ UNCHANGED <<jobs, nonces, admitted, queue, audit>>
    /\ UNCHANGED notAdmit

\* validatePublishIntent step 2: ageMs > maxAgeSec * 1000 rejects.
TimestampOk(age) == ~(age > MAX_AGE_MS)

\* validatePublishIntent steps 1-2: the JSON schema, then the timestamp.
Validate(r) ==
    /\ req[r].pc = "validate"
    /\ req' = IF ~req[r].payload.schemaOk THEN Respond(r, 400, "schema", 0)
              ELSE IF ~TimestampOk(req[r].payload.age)
                   THEN Respond(r, 400, "stale", 0)
                   ELSE [req EXCEPT ![r].pc = "nonceCheck"]
    /\ UNCHANGED <<jobs, nonces, admitted, queue, audit>>
    /\ UNCHANGED notAdmit

\* validatePublishIntent step 3: the nonce must not have been seen; when
\* the query raises an error the check is skipped.
NonceCheck(r) ==
    /\ req[r].pc = "nonceCheck"
    /\ \/ IF NonceUsed(nonces, req[r].payload.key, req[r].payload.nonce)
          THEN req' = Respond(r, 400, "replay", 0)
          ELSE req' = [req EXCEPT ![r].pc = "signerCheck"]
       \/ req' = [req EXCEPT ![r].pc = "signerCheck"]
    /\ UNCHANGED <<jobs, nonces, admitted, queue, audit>>
    /\ UNCHANGED notAdmit

\* The signer lookup placed after a recordNonceUsage call.
SignerCheckAfterNonceWrite(r) ==
    /\ req[r].pc = "signerCheck"
    /\ nonces' = NonceInserted(nonces, req[r].payload.key, req[r].payload.nonce)
    /\ req' = IF ~req[r].payload.sigOk \/ req[r].payload.key \notin ActiveKeys
              THEN [Respond(r, 400, "signer", 0) EXCEPT ![r].wrote = @ \cup {"nonces"}]
              ELSE [req EXCEPT ![r].pc = "createJob", ![r].wrote = @ \cup {"nonces"}]
    /\ UNCHANGED <<jobs, admitted, queue, audit>>
    /\ UNCHANGED notAdmit

\* validatePublishIntent steps 4-5: signature, then the signer registry;
\* when the registry query raises an error the lookup is skipped.
SignerCheck(r) ==
    /\ req[r].pc = "signerCheck"
    /\ \/ req' = IF ~req[r].payload.sigOk THEN Respond(r, 400, "signature", 0)
                 ELSE IF req[r].payload.key \notin ActiveKeys
                      THEN Respond(r, 400, "signer", 0)
                      ELSE [req EXCEPT ![r].pc = "recordNonce"]
       \/ /\ req[r].payload.sigOk
          /\ req' = [req EXCEPT ![r].pc = "recordNonce"]
    /\ UNCHANGED <<jobs, nonces, admitted, queue, audit>>
    /\ UNCHANGED notAdmit

\* Handler step 2: recordNonceUsage; an error of the INSERT is logged and
\* the handler goes on.
RecordNonceUsage(r) ==
    /\ req[r].pc = "recordNonce"
    /\ \/ /\ nonces' = NonceInserted(nonces, req[r].payload.key, req[r].payload.nonce)
          /\ req' = [req EXCEPT ![r].pc = "createJob",
                                ![r].wrote = IF nonces' # nonces THEN @ \cup {"nonces"}
                                             ELSE @]
       \/ /\ req' = [req EXCEPT ![r].pc = "createJob"]
          /\ UNCHANGED nonces
    /\ UNCHANGED <<jobs, admitted, queue, audit>>
    /\ UNCHANGED notAdmit

\* Handler step 3: createPublishJob; a unique violation is thrown to the
\* handler's catch, which answers 500.
CreatePublishJob(r) ==
    /\ req[r].pc = "createJob"
    /\ LET h == RecordHash(req[r].payload)
       IN IF HashTaken(jobs, h)
          THEN /\ req' = Respond(r, 500, "unique_violation", 0)
               /\ UNCHANGED <<jobs, admitted>>
          ELSE /\ jobs' = Append(jobs, QueuedJob(h, StampAfter(jobs)))
               /\ admitted' = Append(admitted, [key |-> req[r].payload.key,
                                                nonce |-> req[r].payload.nonce,
                                                by |-> r])
               /\ req' = [req EXCEPT ![r].pc = "enqueue", ![r].jobId = Len(jobs) + 1,
                                     ![r].wrote = @ \cup {"publish_jobs"}]
    /\ UNCHANGED <<nonces, queue, audit>>
    /\ UNCHANGED notAdmit

\* Handler step 4: publishQueue.add, which may throw.
Enqueue(r) ==
    /\ req[r].pc = "enqueue"
    /\ \/ /\ queue' = queue \cup {req[r].jobId}
          /\ req' = [req EXCEPT ![r].pc = "audit", ![r].wrote = @ \cup {"queue"}]
       \/ /\ req' = Respond(r, 500, "enqueue_failed", 0)
          /\ UNCHANGED queue
    /\ UNCHANGED <<jobs, nonces, admitted, audit>>
    /\ UNCHANGED notAdmit

\* Handler step 5 and the 202 response; an error of the audit INSERT is
\* logged and the response is sent all the same.
AuditRespond(r) ==
    /\ req[r].pc = "audit"
    /\ \/ /\ audit' = Append(audit, [actor |-> req[r].payload.key,
                                      job |-> req[r].jobId])
          /\ req' = [Respond(r, 202, "accepted", req[r].jobId)
                       EXCEPT ![r].wrote = @ \cup {"audit_log"}]
       \/ /\ req' = Respond(r, 202, "accepted", req[r].jobId)
          /\ UNCHANGED audit
    /\ UNCHANGED <<jobs, nonces, admitted, queue>>
    /\ UNCHANGED notAdmit

InFlight(r) == req[r].pc \notin {"idle", "done", "lost"}

\* The API process dies: requests in flight are never answered.
ApiCrash ==
    /\ \E r \in Reqs : InFlight(r)
    /\ req' = [r \in Reqs |-> IF InFlight(r) THEN [req[r] EXCEPT !.pc = "lost"]
                              ELSE req[r]]
    /\ UNCHANGED <<jobs, nonces, admitted, queue, audit>>
    /\ UNCHANGED notAdmit

AdmitInit ==
    /\ jobs = <<>>
    /\ WorkerIdle
    /\ AdmitIdle
    /\ ReplIdle
    /\ BucketInit

AdmitNext ==
    \/ \E r \in Reqs, pl \in Payloads : Receive(r, pl)
    \/ \E r \in Reqs : Validate(r)
    \/ \E r \in Reqs : NonceCheck(r)
    \/ \E r \in Reqs : SignerCheck(r)
    \/ \E r \in Reqs : RecordNonceUsage(r)
    \/ \E r \in Reqs : CreatePublishJob(r)
    \/ \E r \in Reqs : Enqueue(r)
    \/ \E r \in Reqs : AuditRespond(r)
    \/ ApiCrash

SpecAdmit == AdmitInit /\ [][AdmitNext]_vars

\* ------------------------------------------------------- replenisher

\* ORDER BY satoshis DESC over the sizes.
SizeRank(sz) == IF sz = "ample" THEN 3 ELSE IF sz = "dust" THEN 2
                ELSE IF sz = "short" THEN 1 ELSE 0

\* getPoolStats, largest_utxo_id: the available funding or change rows
\* above 1,000,000 satoshis with the most satoshis.
LargestUtxo(fs) ==
    LET C == {i \in DOMAIN fs : /\ fs[i].status = "available"
                                /\ fs[i].purpose \in {"funding", "change"}
                                /\ fs[i].size # "small"}
    IN {i \in C : \A k \in C : SizeRank(fs[i].size) >= SizeRank(fs[k].size)}

\* The ledger has accepted a split transaction that spends funding row i.
SpentOnLedger(i) == \E k \in DOMAIN splitLog : splitLog[k].src = i /\ splitLog[k].ok

\* checkAndReplenish's cooldown test: no split has been recorded by this
\* process, or SPLIT_COOLDOWN_MS has passed since the recorded one.
CooldownOver(last, t) == last = NULL \/ ~(t - last < CooldownTicks)

\* The run has thrown and checkAndReplenish's catch has ended it.
Thrown(r) == [NoRun EXCEPT !.started = run[r].started]

\* checkAndReplenish up to the call of splitUtxo: the timer fires, once in
\* an interval; the stats are read, the pool is below MIN_POOL_SIZE, the
\* cooldown is over and a large row exists.
CheckAndReplenish(r) ==
    /\ run[r].pc \in {"idle", "done"}
    /\ \A q \in Runs : run[q].started # rnow
    /\ Cardinality(units) < MinPool
    /\ CooldownOver(lastSplitTime, rnow)
    /\ \E i \in LargestUtxo(funds) :
         run' = [run EXCEPT ![r] = [NoRun EXCEPT !.pc = "select", !.src = i,
                                                 !.started = rnow]]
    /\ UNCHANGED <<rnow, funds, units, lastSplitTime, splitLog>>
    /\ UNCHANGED notRepl

\* splitUtxo: the SELECT of the source row and the fee arithmetic; either
\* may throw, and checkAndReplenish's catch ends the run.
SplitSelect(r) ==
    /\ run[r].pc = "select"
    /\ LET row == funds[run[r].src]
       IN IF row.status = "available" /\ row.size # "short"
          THEN run' = [run EXCEPT ![r].pc = "broadcast"]
          ELSE run' = [run EXCEPT ![r] = Thrown(r)]
    /\ UNCHANGED <<rnow, funds, units, lastSplitTime, splitLog>>
    /\ UNCHANGED notRepl

\* splitUtxo: the transaction is built, signed and posted.  The ledger
\* accepts it when its input is unspent and rejects it otherwise; the post
\* may also fail before the ledger sees the transaction.
SplitBroadcast(r) ==
    /\ run[r].pc = "broadcast"
    /\ Len(splitLog) < MaxSplits
    /\ \/ /\ ~SpentOnLedger(run[r].src)
          /\ splitLog' = Append(splitLog, [src |-> run[r].src, at |-> rnow, ok |-> TRUE])
          /\ run' = [run EXCEPT ![r].pc = "markSpent", ![r].txid = Len(splitLog) + 1]
       \/ /\ SpentOnLedger(run[r].src)
          /\ splitLog' = Append(splitLog, [src |-> run[r].src, at |-> rnow, ok |-> FALSE])
          /\ run' = [run EXCEPT ![r] = Thrown(r)]
       \/ /\ run' = [run EXCEPT ![r] = Thrown(r)]
          /\ UNCHANGED splitLog
    /\ UNCHANGED <<rnow, funds, units, lastSplitTime>>
    /\ UNCHANGED notRepl

\* splitUtxo: UPDATE utxos SET status = 'spent', spent_at = NOW() WHERE
\* id = $1, or the statement fails and the run ends in the catch.
SplitMarkSpent(r) ==
    /\ run[r].pc = "markSpent"
    /\ \/ /\ funds' = [funds EXCEPT ![run[r].src].status = "spent"]
          /\ run' = [run EXCEPT ![r].pc = "insert"]
       \/ /\ run' = [run EXCEPT ![r] = Thrown(r)]
          /\ UNCHANGED funds
    /\ UNCHANGED <<rnow, units, lastSplitTime, splitLog>>
    /\ UNCHANGED notRepl

\* The outputs of a split of row i: SplitK of 100 satoshis, and the change
\* when it is above 546 satoshis.
Outputs(i) == SplitK + (IF funds[i].size = "ample" THEN 1 ELSE 0)

\* splitUtxo: one INSERT of its loop over tx.outputs; after the last one
\* splitUtxo returns and checkAndReplenish stores lastSplitTime.
SplitInsert(r) ==
    /\ run[r].pc = "insert"
    /\ LET v == run[r].vout
           last == v + 1 = Outputs(run[r].src)
           pcn == IF last THEN "done" ELSE "insert"
       IN /\ IF v < SplitK
             THEN /\ units' = units \cup {<<run[r].txid, v>>}
                  /\ run' = [run EXCEPT ![r].vout = v + 1, ![r].units = @ + 1,
                                         ![r].pc = pcn]
                  /\ UNCHANGED funds
             ELSE /\ \E sz \in {"small", "ample"} :
                       funds' = Append(funds, FundRow("change", sz, run[r].txid))
                  /\ run' = [run EXCEPT ![r].vout = v + 1, ![r].change = @ + 1,
                                         ![r].pc = pcn]
                  /\ UNCHANGED units
          /\ lastSplitTime' = IF last THEN rnow ELSE lastSplitTime
    /\ UNCHANGED <<rnow, splitLog>>
    /\ UNCHANGED notRepl

\* (txid, vout) order, the order in which the rows were inserted.
RowBefore(x, y) == x[1] < y[1] \/ (x[1] = y[1] /\ x[2] <= y[2])

\* A worker spends an available 100-sat row, the oldest one.
Consume ==
    /\ units # {}
    /\ units' = units \ {CHOOSE x \in units : \A y \in units : RowBefore(x, y)}
    /\ UNCHANGED <<rnow, funds, lastSplitTime, run, splitLog>>
    /\ UNCHANGED notRepl

\* One check interval passes.
RTick ==
    /\ rnow < MaxRTime
    /\ rnow' = rnow + 1
    /\ UNCHANGED <<funds, units, lastSplitTime, run, splitLog>>
    /\ UNCHANGED notRepl

\* The replenisher process is stopped and started again: its runs and
\* lastSplitTime are gone, the tables are as they were.
ReplRestart ==
    /\ lastSplitTime # NULL \/ \E r \in Runs : run[r] # NoRun
    /\ run' = [r \in Runs |-> NoRun]
    /\ lastSplitTime' = NULL
    /\ UNCHANGED <<rnow, funds, units, splitLog>>
    /\ UNCHANGED notRepl

\* The replenisher starts on NumFunds funding rows of any size above
\* 1,000,000 satoshis and a pool of up to MinPool available rows.
ReplInit ==
    /\ jobs = <<>>
    /\ WorkerIdle
    /\ AdmitIdle
    /\ BucketInit
    /\ rnow = 0
    /\ funds \in [1..NumFunds -> {FundRow("funding", sz, 0) : sz \in {"short", "dust", "ample"}}]
    /\ \E n \in 0..MinPool : units = {<<0, v>> : v \in 1..n}
    /\ lastSplitTime = NULL
    /\ run = [r \in Runs |-> NoRun]
    /\ splitLog = <<>>

ReplNext ==
    \/ \E r \in Runs : CheckAndReplenish(r)
    \/ \E r \in Runs : SplitSelect(r)
    \/ \E r \in Runs : SplitBroadcast(r)
    \/ \E r \in Runs : SplitMarkSpent(r)
    \/ \E r \in Runs : SplitInsert(r)
    \/ Consume
    \/ RTick
    \/ ReplRestart

SpecRepl == ReplInit /\ [][ReplNext]_vars

\* ------------------------------------------------------- TokenBucket

Min(a, b) == IF a <= b THEN a ELSE b

\* The tokens handed out from millisecond a to millisecond b.
RECURSIVE TakenBetween(_, _)
TakenBetween(a, b) == IF a > b THEN 0 ELSE takenAt[a] + TakenBetween(a + 1, b)

\* Math.ceil(a / b) for a >= 0, b > 0
CeilDiv(a, b) == (a + b - 1) \div b

\* refill(now) without Math.min(capacity, ...).
RefillUncapped(tk, last, t) ==
    IF t - last <= 0 THEN <<tk, last>>
    ELSE <<tk + (t - last) * BucketCapacity, t>>

\* refill(now) that stamps lastRefillMs and adds no tokens.
RefillNoTokens(tk, last, t) ==
    IF t - last <= 0 THEN <<tk, last>>
    ELSE <<tk, t>>

\* refill(now): <<tokens, lastRefillMs>> afterwards.
Refill(tk, last, t) ==
    IF t - last <= 0 THEN <<tk, last>>
    ELSE <<Min(CapacityUnits, tk + (t - last) * BucketCapacity), t>>

\* take(n) is called.
TakeCall(n) ==
    /\ taker.pc = "idle"
    /\ taker' = [pc |-> "loop", n |-> n, wakeAt |-> 0]
    /\ UNCHANGED <<ms, tokens, lastRefillMs, takenAt>>
    /\ UNCHANGED notBucket

\* One pass of take's loop: refill, then take the tokens or go to sleep.
TakeLoop ==
    /\ taker.pc = "loop"
    /\ LET rf == Refill(tokens, lastRefillMs, ms)
           need == taker.n * TokenUnit
       IN /\ lastRefillMs' = rf[2]
          /\ IF rf[1] >= need
             THEN /\ tokens' = rf[1] - need
                  /\ takenAt' = [takenAt EXCEPT ![ms] = @ + taker.n]
                  /\ taker' = NoTake
             ELSE /\ tokens' = rf[1]
                  /\ taker' = [taker EXCEPT !.pc = "sleep",
                                 !.wakeAt = ms + Min(CeilDiv(need - rf[1], BucketCapacity),
                                                     SLEEP_SLICE_MS)]
                  /\ UNCHANGED takenAt
    /\ UNCHANGED ms
    /\ UNCHANGED notBucket

\* The sleep's timer fires.
TakeWake ==
    /\ taker.pc = "sleep"
    /\ ms >= taker.wakeAt
    /\ taker' = [taker EXCEPT !.pc = "loop"]
    /\ UNCHANGED <<ms, tokens, lastRefillMs, takenAt>>
    /\ UNCHANGED notBucket

MsTick ==
    /\ ms < MaxMs
    /\ ms' = ms + 1
    /\ UNCHANGED <<tokens, lastRefillMs, taker, takenAt>>
    /\ UNCHANGED notBucket

\* available(): refill, then report Math.floor(tokens).
Available ==
    /\ LET rf == Refill(tokens, lastRefillMs, ms)
       IN tokens' = rf[1] /\ lastRefillMs' = rf[2]
    /\ UNCHANGED <<ms, taker, takenAt>>
    /\ UNCHANGED notBucket

\* reset(): back to full capacity.  Resets stop once MaxTaken tokens have
\* been handed out.
Reset ==
    /\ TakenBetween(0, MaxMs) < MaxTaken
    /\ tokens' = CapacityUnits
    /\ lastRefillMs' = ms
    /\ UNCHANGED <<ms, taker, takenAt>>
    /\ UNCHANGED notBucket

BucketNext ==
    \/ \E n \in 1..BucketCapacity : TakeCall(n)
    \/ TakeLoop
    \/ TakeWake
    \/ MsTick

SpecBucket == Init /\ [][BucketNext]_vars

\* The bucket under every call of its interface; take is called for one
\* token up to one more than the bucket can hold.
BucketApiNext ==
    \/ \E n \in 1..(BucketCapacity + 1) : TakeCall(n)
    \/ TakeLoop
    \/ TakeWake
    \/ MsTick
    \/ Available
    \/ Reset

SpecBucketApi == Init /\ [][BucketApiNext]_vars

\* The bucket while time advances: the loop runs, the timers fire and the
\* clock moves on.  take is called while the clock still has a full window
\* to run, for one token up to one more than the bucket can hold.
BucketLiveNext ==
    \/ \E n \in 1..(BucketCapacity + 1) :
           ms + BucketWindowMs <= MaxMs /\ TakeCall(n)
    \/ TakeLoop
    \/ TakeWake
    \/ MsTick

BucketFairness ==
    /\ WF_vars(TakeLoop)
    /\ WF_vars(TakeWake)
    /\ WF_vars(MsTick)

SpecBucketLive == Init /\ [][BucketLiveNext]_vars /\ BucketFairness

\* ------------------------------ one broadcaster and its rate limiter

\* processJob step 2 without step 3: the transaction is built and handed
\* to broadcastTx with no take(1) in between.
BuildTxNoTake(p) ==
    /\ pc[p] = "build"
    /\ \/ pc' = [pc EXCEPT ![p] = "broadcast"] /\ UNCHANGED cur
       \/ /\ pc' = [pc EXCEPT ![p] = "catchUtxo"]
          /\ cur' = [cur EXCEPT ![p].err = "build"]
    /\ UNCHANGED <<now, jobs, utxos, rowLock, nextBatch, starts, chainSpent, everSending>>
    /\ UNCHANGED <<admitVars, bucketVars, replVars>>

\* processJob step 2 and the call of step 3: buildPublishTx (it may throw),
\* then rateLimiter.take(1) is called.
BuildTx(p) ==
    /\ pc[p] = "build"
    /\ \/ /\ taker.pc = "idle"
          /\ taker' = [pc |-> "loop", n |-> 1, wakeAt |-> 0]
          /\ pc' = [pc EXCEPT ![p] = "take"]
          /\ UNCHANGED cur
       \/ /\ pc' = [pc EXCEPT ![p] = "catchUtxo"]
          /\ cur' = [cur EXCEPT ![p].err = "build"]
          /\ UNCHANGED taker
    /\ UNCHANGED <<now, jobs, utxos, rowLock, nextBatch, starts, chainSpent, everSending>>
    /\ UNCHANGED <<admitVars, ms, tokens, lastRefillMs, takenAt, replVars>>

\* processJob step 3: the awaited take(1) has returned.
TakeReturn(p) ==
    /\ pc[p] = "take"
    /\ taker.pc = "idle"
    /\ pc' = [pc EXCEPT ![p] = "broadcast"]
    /\ cur' = [cur EXCEPT ![p].token = TRUE]
    /\ UNCHANGED notWorker
    /\ UNCHANGED <<now, jobs, utxos, rowLock, nextBatch, starts, chainSpent, everSending>>

\* One step of process p's broadcasterLoop, take(1) running in the bucket.
RateStep(p) ==
    \/ GetActiveBatch(p)
    \/ ClaimNextJob(p)
    \/ ReserveSweep(p)
    \/ ReserveSelect(p)
    \/ ReserveUpdate(p)
    \/ BuildTx(p)
    \/ TakeReturn(p)
    \/ Broadcast(p)
    \/ MarkJobSent(p)
    \/ MarkUTXOSpent(p)
    \/ CatchUtxo(p)
    \/ CatchJob(p)

\* A worker process that has broadcast before: part of the pool is spent,
\* and its bucket is full, holds one token, or is drained.
RateInit ==
    /\ jobs = <<>>
    /\ now = 0
    /\ \E S \in SUBSET UtxoIds : utxos = UsedPool(S) /\ chainSpent = S
    /\ rowLock = [u \in UtxoIds |-> NoProc]
    /\ pc = [p \in Procs |-> "down"]
    /\ cur = [p \in Procs |-> NoCur]
    /\ nextBatch = 1
    /\ starts = 0
    /\ everSending = {}
    /\ AdmitIdle
    /\ ReplIdle
    /\ ms = 0
    /\ tokens \in {0, TokenUnit, CapacityUnits}
    /\ lastRefillMs = 0
    /\ taker = NoTake
    /\ takenAt = [t \in 0..MaxMs |-> 0]

RateNext ==
    \/ InsertJob
    \/ Start("w1")
    \/ CollectBatch("w1")
    \/ RateStep("w1")
    \/ \E u \in UtxoIds : InsertUTXO(u)
    \/ TakeLoop
    \/ TakeWake
    \/ MsTick

SpecRate == RateInit /\ [][RateNext]_vars

\* ------------------------------------------------ the single-job worker

\* The BullMQ worker of worker.js, concurrency 1.  queue holds the jobs that
\* BullMQ has not yet completed or failed: a job stays in it while a worker
\* processes it and is delivered again when that worker dies (a stalled
\* job goes back to wait).

\* startWorker: initQueue and new Worker.
StartWorker(p) ==
    /\ pc[p] = "down"
    /\ starts < MaxStarts
    /\ starts' = starts + 1
    /\ pc' = [pc EXCEPT ![p] = "sjWait"]
    /\ UNCHANGED notWorker
    /\ UNCHANGED <<now, jobs, utxos, rowLock, cur, nextBatch, chainSpent, everSending>>

\* BullMQ hands a waiting job to the processor, which calls processJob.
Deliver(p) ==
    /\ pc[p] = "sjWait"
    /\ \E j \in queue : cur' = [cur EXCEPT ![p] = [NoCur EXCEPT !.job = j]]
    /\ pc' = [pc EXCEPT ![p] = "sjSweep"]
    /\ UNCHANGED notWorker
    /\ UNCHANGED <<now, jobs, utxos, rowLock, nextBatch, starts, chainSpent, everSending>>

\* The processor has returned or thrown: BullMQ completes or fails the
\* job (attempts is 1) and the worker waits for the next one.
Settled(p) ==
    /\ queue' = queue \ {cur[p].job}
    /\ cur' = [cur EXCEPT ![p] = NoCur]
    /\ pc' = [pc EXCEPT ![p] = "sjWait"]
    /\ UNCHANGED <<nonces, admitted, audit, req>>
    /\ UNCHANGED <<bucketVars, replVars>>

\* worker.js reserveUTXO, first statement.
SingleSweep(p) ==
    /\ pc[p] = "sjSweep"
    /\ utxos' = SweepRows(utxos, now)
    /\ pc' = [pc EXCEPT ![p] = "sjSelect"]
    /\ UNCHANGED notWorker
    /\ UNCHANGED <<now, jobs, rowLock, cur, nextBatch, starts, chainSpent, everSending>>

\* worker.js reserveUTXO, the locking subselect.  No row: processJob throws
\* "No available UTXOs in pool" before its try block.
SingleSelect(p) ==
    /\ pc[p] = "sjSelect"
    /\ LET u == SelectUtxo(utxos, rowLock)
       IN IF u = 0
          THEN /\ Settled(p)
               /\ UNCHANGED rowLock
          ELSE /\ rowLock' = [rowLock EXCEPT ![u] = p]
               /\ cur' = [cur EXCEPT ![p].utxo = u]
               /\ pc' = [pc EXCEPT ![p] = "sjReserve"]
               /\ UNCHANGED notWorker
    /\ UNCHANGED <<now, jobs, utxos, nextBatch, starts, chainSpent, everSending>>

\* worker.js reserveUTXO, SET ... RETURNING and commit.
SingleReserve(p) ==
    /\ pc[p] = "sjReserve"
    /\ LET u == cur[p].utxo
       IN /\ utxos' = [utxos EXCEPT ![u] = ReserveRow(utxos[u], now)]
          /\ rowLock' = [rowLock EXCEPT ![u] = NoProc]
    /\ cur' = [cur EXCEPT ![p].lease = now + LEASE_MINUTES]
    /\ pc' = [pc EXCEPT ![p] = "sjBuild"]
    /\ UNCHANGED notWorker
    /\ UNCHANGED <<now, jobs, nextBatch, starts, chainSpent, everSending>>

\* worker.js processJob step 2: buildPublishTx, which may throw.
SingleBuild(p) ==
    /\ pc[p] = "sjBuild"
    /\ \/ /\ pc' = [pc EXCEPT ![p] = "sjBroadcast"]
          /\ UNCHANGED cur
       \/ /\ pc' = [pc EXCEPT ![p] = "sjCatchUtxo"]
          /\ cur' = [cur EXCEPT ![p].err = "build"]
    /\ UNCHANGED notWorker
    /\ UNCHANGED <<now, jobs, utxos, rowLock, nextBatch, starts, chainSpent, everSending>>

\* worker.js processJob step 3: broadcastTx, with the outcomes of Broadcast.
SingleBroadcast(p) ==
    /\ pc[p] = "sjBroadcast"
    /\ LET u == cur[p].utxo
       IN \/ /\ u \notin chainSpent
             /\ chainSpent' = chainSpent \cup {u}
             /\ cur' = [cur EXCEPT ![p].txid = TxOf(u, cur[p].job)]
             /\ pc' = [pc EXCEPT ![p] = "sjMarkSent"]
          \/ /\ u \in chainSpent
             /\ \E e \in {"mempool", "rejected"} : cur' = [cur EXCEPT ![p].err = e]
             /\ pc' = [pc EXCEPT ![p] = "sjCatchUtxo"]
             /\ UNCHANGED chainSpent
          \/ /\ cur' = [cur EXCEPT ![p].err = "network"]
             /\ pc' = [pc EXCEPT ![p] = "sjCatchUtxo"]
             /\ UNCHANGED chainSpent
    /\ UNCHANGED notWorker
    /\ UNCHANGED <<now, jobs, utxos, rowLock, nextBatch, starts, everSending>>

\* worker.js processJob step 4: UPDATE publish_jobs SET status = 'sent',
\* txid = $1, sent_at = NOW() WHERE job_id = $2.
SingleMarkSent(p) ==
    /\ pc[p] = "sjMarkSent"
    /\ jobs' = [jobs EXCEPT ![cur[p].job] = SentJob(jobs[cur[p].job], cur[p].txid)]
    /\ pc' = [pc EXCEPT ![p] = "sjMarkSpent"]
    /\ UNCHANGED notWorker
    /\ UNCHANGED <<now, utxos, rowLock, cur, nextBatch, starts, chainSpent, everSending>>

\* worker.js processJob step 5: markUTXOSpent, and the processor returns.
SingleMarkSpent(p) ==
    /\ pc[p] = "sjMarkSpent"
    /\ RowFree(p, cur[p].utxo)
    /\ utxos' = [utxos EXCEPT ![cur[p].utxo] = SpentRow(utxos[cur[p].utxo], cur[p].txid)]
    /\ Settled(p)
    /\ UNCHANGED <<now, jobs, rowLock, nextBatch, starts, chainSpent, everSending>>

\* worker.js processJob catch: markUTXODirty on a mempool message, else
\* releaseUTXO.
SingleCatchUtxo(p) ==
    /\ pc[p] = "sjCatchUtxo"
    /\ RowFree(p, cur[p].utxo)
    /\ utxos' = [utxos EXCEPT ![cur[p].utxo] =
                    IF cur[p].err = "mempool" THEN DirtyRow(utxos[cur[p].utxo])
                    ELSE ReleasedRow(utxos[cur[p].utxo])]
    /\ pc' = [pc EXCEPT ![p] = "sjCatchJob"]
    /\ UNCHANGED notWorker
    /\ UNCHANGED <<now, jobs, rowLock, cur, nextBatch, starts, chainSpent, everSending>>

\* worker.js processJob catch: UPDATE publish_jobs SET status = 'failed'
\* WHERE job_id = $3, and the error is thrown on to BullMQ.
SingleCatchJob(p) ==
    /\ pc[p] = "sjCatchJob"
    /\ jobs' = [jobs EXCEPT ![cur[p].job] = FailedJob(jobs[cur[p].job])]
    /\ Settled(p)
    /\ UNCHANGED <<now, utxos, rowLock, nextBatch, starts, chainSpent, everSending>>

\* One step of the single-job worker p.
SingleStep(p) ==
    \/ Deliver(p)
    \/ SingleSweep(p)
    \/ SingleSelect(p)
    \/ SingleReserve(p)
    \/ SingleBuild(p)
    \/ SingleBroadcast(p)
    \/ SingleMarkSent(p)
    \/ SingleMarkSpent(p)
    \/ SingleCatchUtxo(p)
    \/ SingleCatchJob(p)

\* POST /v1/publish has admitted NumJobs records: each has its queued
\* publish_jobs row and its BullMQ job.
SingleInit ==
    /\ jobs \in QueuedTables(NumJobs)
    /\ WorkerIdle
    /\ nonces = {}
    /\ admitted = <<>>
    /\ queue = JobIds
    /\ audit = <<>>
    /\ req = [r \in Reqs |-> NoReq]
    /\ ReplIdle
    /\ BucketInit

\* The batch worker w1 and the single-job worker w2 over the same tables;
\* the single-job worker may die and be started again.
SingleNext ==
    \/ Start("w1")
    \/ CollectBatch("w1")
    \/ BroadcasterStep("w1")
    \/ StartWorker("w2")
    \/ SingleStep("w2")
    \/ Crash("w2")

SpecSingle == SingleInit /\ [][SingleNext]_vars

\* ------------------------------------------------------------ properties

\* C1: concurrent reserveUTXO calls never move the same utxos row from
\* available to reserved: a call between its locking subselect and its SET
\* holds the lock of an available row that no other call in that window holds.
C1_DistinctReservations ==
    \A p \in Procs :
        pc[p] = "reserve" =>
            /\ rowLock[cur[p].utxo] = p
            /\ utxos[cur[p].utxo].status = "available"
            /\ \A q \in Procs \ {p} : pc[q] = "reserve" => cur[q].utxo # cur[p].utxo

\* Two calls are inside the reservation statement at once.
C1_Witness ==
    \E p, q \in Procs : p # q /\ pc[p] = "reserve" /\ pc[q] = "reserve"

\* C2: no double-spends: a pool input that a successfully broadcast
\* transaction has spent is never handed out again by reserveUTXO.
C2_NoDoubleSpend ==
    [][\A u \in UtxoIds :
         u \in chainSpent /\ utxos[u].status # "reserved"
         => utxos'[u].status # "reserved"]_vars

StatusEdges ==
    {<<"queued", "processing_batch">>, <<"processing_batch", "sending">>,
     <<"sending", "sent">>, <<"sending", "failed">>}

\* C4: every status change is an edge of queued -> processing_batch ->
\* sending -> (sent | failed), or sending -> processing_batch for a job whose
\* sending_started_at is older than the TTL; sent and failed never change.
C4_StatusMachine ==
    [][\A j \in DOMAIN jobs :
         jobs'[j].status # jobs[j].status =>
            \/ <<jobs[j].status, jobs'[j].status>> \in StatusEdges
            \/ /\ jobs[j].status = "sending"
               /\ jobs'[j].status = "processing_batch"
               /\ jobs[j].startedAt < now - TTL_MINUTES]_vars

\* C6: every sent job's txid is the spent_by_txid of exactly one utxos row,
\* and that row is spent.
C6_SentHasSpentUtxo ==
    \A j \in DOMAIN jobs :
        jobs[j].status = "sent" =>
            /\ Cardinality({u \in UtxoIds : utxos[u].spentBy = jobs[j].txid}) = 1
            /\ \A u \in UtxoIds :
                 utxos[u].spentBy = jobs[j].txid => utxos[u].status = "spent"

Terminal == {"sent", "failed"}

C3_OneJobPerNonce ==
    /\ \A a, b \in DOMAIN admitted :
         a # b => <<admitted[a].key, admitted[a].nonce>> # <<admitted[b].key, admitted[b].nonce>>
    /\ \A a, b \in DOMAIN jobs : a # b => jobs[a].hash # jobs[b].hash

\* The request reached createPublishJob: its intent passed every check.
Validated(r) ==
    req[r].pc = "done" /\ req[r].resp.kind \in {"accepted", "unique_violation", "enqueue_failed"}

\* C7: at most one job row per record hash, and a validated intent whose
\* record hash is that of a job another request created is answered with
\* that job's id.
C7_IdempotentAdmission ==
    /\ \A a, b \in DOMAIN jobs : a # b => jobs[a].hash # jobs[b].hash
    /\ \A r \in Reqs :
         Validated(r) =>
            \A i \in DOMAIN jobs :
               jobs[i].hash = RecordHash(req[r].payload) /\ admitted[i].by # r
               => req[r].resp.kind = "accepted" /\ req[r].resp.jobId = i

\* C8: a nonce row exists only if the job admitted with that (key, nonce)
\* exists.
C8_NonceWithJob ==
    \A kn \in nonces :
        \E i \in DOMAIN admitted : <<admitted[i].key, admitted[i].nonce>> = kn

\* C9: of two answered admissions of valid intents with the same (signer
\* key, nonce), neither hit by a queue failure, exactly one is accepted and
\* the other is rejected as a replay.
C9_OneWinsOneReplay ==
    \A r, q \in Reqs :
        /\ r # q
        /\ req[r].pc = "done" /\ req[q].pc = "done"
        /\ req[r].payload.key = req[q].payload.key
        /\ req[r].payload.nonce = req[q].payload.nonce
        /\ req[r].payload.sigOk /\ req[q].payload.sigOk
        /\ req[r].payload.schemaOk /\ req[q].payload.schemaOk
        /\ req[r].payload.age = MAX_AGE_MS /\ req[q].payload.age = MAX_AGE_MS
        /\ req[r].payload.key \in ActiveKeys
        /\ req[r].resp.kind # "enqueue_failed" /\ req[q].resp.kind # "enqueue_failed"
        => {req[r].resp.kind, req[q].resp.kind} = {"accepted", "replay"}

\* C5: in every window of BucketWindowMs milliseconds, the first one
\* included, at most BucketCapacity tokens are handed out.
C5_WindowCeiling ==
    \A s \in 0..MaxMs :
        TakenBetween(s, Min(s + BucketWindowMs - 1, MaxMs)) <= BucketCapacity

\* The jobs that collectBatch put into batch b.
BatchJobs(b) == {j \in DOMAIN jobs : jobs[j].batch = b}

\* Batch a was formed from older jobs than batch b: its least created_at
\* is smaller.
OlderBatch(a, b) ==
    /\ a # 0 /\ b # 0 /\ a # b
    /\ BatchJobs(a) # {} /\ BatchJobs(b) # {}
    /\ jobs[Oldest(jobs, BatchJobs(a))].createdAt
         < jobs[Oldest(jobs, BatchJobs(b))].createdAt

\* Batch b still has a job in processing_batch or sending.
BatchActive(b) ==
    \E k \in DOMAIN jobs : jobs[k].batch = b /\ jobs[k].status \in ActiveStatus

C12_DenseSeqByAge ==
    \A b \in 1..NumJobs :
        /\ \A n \in 1..Cardinality(BatchJobs(b)) :
             Cardinality({j \in BatchJobs(b) : jobs[j].seq = n}) = 1
        /\ \A j, k \in BatchJobs(b) :
             jobs[j].seq < jobs[k].seq => jobs[j].createdAt < jobs[k].createdAt

\* C13: every admitted job eventually reaches sent or failed.
C13_NoStalls ==
    \A j \in JobIds :
        (j \in DOMAIN jobs) ~> (j \in DOMAIN jobs /\ jobs[j].status \in Terminal)

\* A process is starting: startBatchWorker runs unstickJobs.
Restarting == \E p \in Procs : pc[p] = "down" /\ pc'[p] # "down"

\* C14: a restart later than the TTL after job k was claimed into sending
\* reverts k to processing_batch, and a job reverted this way eventually
\* reaches sent or failed.
C14_CrashRecovery ==
    /\ [][\A j \in DOMAIN jobs :
            /\ Restarting
            /\ jobs[j].status = "sending"
            /\ jobs[j].startedAt < now - TTL_MINUTES
            => jobs'[j].status = "processing_batch"]_vars
    /\ \A j \in JobIds :
         (j \in DOMAIN jobs /\ j \in everSending /\ jobs[j].status = "processing_batch")
         ~> (j \in DOMAIN jobs /\ jobs[j].status \in Terminal)

\* C15: when reserveUTXO finds no row for a claimed job, the job becomes
\* failed with error code NoCapacity, no utxos row changes, and the
\* broadcaster goes on to claim the next job of the batch.
C15_NoCapacityFailsJob ==
    [][\A p \in Procs :
         /\ pc[p] = "select"
         /\ pc'[p] \notin {"select", "down"}
         /\ SelectUtxo(utxos, rowLock) = 0
         => /\ jobs'[cur[p].job].status = "failed"
            /\ jobs'[cur[p].job].err = "NoCapacity"
            /\ utxos' = utxos
            /\ pc'[p] = "claim"]_vars

\* C16: when processJob has handled a broadcast answered with a mempool
\* conflict, the job is failed with error code MEMPOOL_CONFLICT and the
\* UTXO is available, dirty, and without a reservation.
C16_MempoolConflictEndState ==
    [][\A p \in Procs :
         /\ pc[p] = "catchJob"
         /\ cur[p].err = "mempool"
         /\ pc'[p] = "claim"
         => /\ jobs'[cur[p].job].status = "failed"
            /\ jobs'[cur[p].job].err = "MEMPOOL_CONFLICT"
            /\ utxos'[cur[p].utxo].status = "available"
            /\ utxos'[cur[p].utxo].dirty = TRUE
            /\ utxos'[cur[p].utxo].reservedUntil = NULL]_vars

\* C17: a utxos row whose status is spent keeps that status.
C17_SpentIsFinal ==
    [][\A u \in UtxoIds :
         utxos[u].status = "spent" => utxos'[u].status = "spent"]_vars

\* C18: every job row was created for an intent whose signer is active in
\* the registry.
C18_OnlyActiveSigners ==
    \A i \in DOMAIN admitted : admitted[i].key \in ActiveKeys

Abs(x) == IF x < 0 THEN -x ELSE x

\* C19: an intent that passes the schema is rejected as stale exactly when
\* its timestamp is more than 10 minutes away from now, in the past or in
\* the future.
C19_TimestampSkew ==
    \A r \in Reqs :
        req[r].pc = "done" /\ req[r].payload.schemaOk
        => (req[r].resp.kind = "stale" <=> Abs(req[r].payload.age) > MAX_AGE_MS)

\* C20: a request answered with a rejection has written no job row, no
\* nonce row, no queue entry and no audit event.
C20_RejectionWritesNothing ==
    \A r \in Reqs :
        req[r].resp.code = 400 =>
            /\ req[r].wrote = {}
            /\ req[r].jobId = 0
            /\ \A i \in DOMAIN admitted : admitted[i].by # r

\* A request is rejected at the last check, the signer registry, while
\* another request has filled the store.
C20_Witness ==
    \E r, q \in Reqs :
        /\ req[r].resp.code = 400 /\ req[r].resp.kind = "signer"
        /\ req[q].resp.code = 202
        /\ nonces # {} /\ audit # <<>>

\* C21: when a worker's handling of a job ends in a failure (no UTXO, build
\* error, broadcast error), the job row is failed with an error code and an
\* audit event has been appended.
C21_FailureRecorded ==
    [][\A p \in Procs :
         \/ pc[p] = "catchJob" /\ pc'[p] = "claim"
         \/ pc[p] = "select" /\ pc'[p] = "getBatch"
         => /\ jobs'[cur[p].job].status = "failed"
            /\ jobs'[cur[p].job].err # "none"
            /\ Len(audit') = Len(audit) + 1]_vars

\* C22: a write to a job row takes effect only from the state it expects:
\* every change of a row is an edge of the state machine out of the row's
\* current status, so a write that arrives after another actor moved the
\* job changes nothing.
C22_ConditionalWrites ==
    [][\A j \in DOMAIN jobs :
         jobs'[j] # jobs[j] =>
            <<jobs[j].status, jobs'[j].status>>
                \in StatusEdges \cup {<<"sending", "processing_batch">>}]_vars

\* The utxos row that process p works with is still under the reservation
\* that p's own reserveUTXO call made.
OwnReservation(p) ==
    /\ utxos[cur[p].utxo].status = "reserved"
    /\ utxos[cur[p].utxo].reservedUntil = cur[p].lease

\* C23: markUTXOSpent, releaseUTXO and markUTXODirty of a worker change only
\* a row that is still under that worker's own reservation.
C23_OwnReservationOnly ==
    [][\A p \in Procs :
         /\ pc[p] \in {"markSpent", "catchUtxo"}
         /\ pc'[p] \notin {pc[p], "down"}
         /\ utxos'[cur[p].utxo] # utxos[cur[p].utxo]
         => OwnReservation(p)]_vars

\* Job j has been in sending for longer than the TTL: the row that the
\* stuck_sending health query counts.
StuckSending(j) ==
    /\ j \in DOMAIN jobs
    /\ jobs[j].status = "sending"
    /\ jobs[j].startedAt # NULL
    /\ jobs[j].startedAt < now - TTL_MINUTES

\* C24: a job that has been in sending for longer than the TTL eventually
\* leaves that condition, so the count of such jobs does not stay above 0.
C24_StuckEventuallyReverted ==
    \A j \in JobIds : StuckSending(j) ~> ~StuckSending(j)

\* The reservation of row u has run out: reserved_until < NOW().
LeaseExpired(u) ==
    /\ utxos[u].status = "reserved"
    /\ utxos[u].reservedUntil # NULL
    /\ utxos[u].reservedUntil < now

\* C25: the sweep of a reserveUTXO call returns every row whose
\* reserved_until has passed to available, clears its reservation and leaves
\* it selectable by the same call; it changes no other row, so a lease that
\* has not run out is never released by it.
C25_SweepReleasesExpired ==
    [][\A p \in Procs :
         pc[p] = "sweep" /\ pc'[p] = "select"
         => \A u \in UtxoIds :
               IF LeaseExpired(u)
               THEN /\ utxos'[u].status = "available"
                    /\ utxos'[u].reservedUntil = NULL
                    /\ u \in Selectable(utxos', rowLock')
               ELSE utxos'[u] = utxos[u]]_vars

\* A reserveUTXO call has selected the row whose earlier holder is still at
\* work on it with a lease that ran out.
C25_Witness ==
    \E p, q \in Procs :
        /\ p # q
        /\ pc[p] = "reserve"
        /\ pc[q] \in {"build", "broadcast", "markSent", "markSpent", "catchUtxo"}
        /\ cur[p].utxo = cur[q].utxo
        /\ cur[q].lease # NULL
        /\ cur[q].lease < now

\* A broadcaster still holds, under a lease that has not run out, the UTXO
\* it reserved for its attempt on job j.
LiveLeaseFor(j) ==
    \E p \in Procs :
        /\ cur[p].job = j
        /\ cur[p].utxo # 0
        /\ OwnReservation(p)
        /\ utxos[cur[p].utxo].reservedUntil >= now

\* C26: unstickJobs never returns a job from sending to processing_batch
\* while the UTXO reserved for the job's earlier attempt is still held under
\* a live lease.
C26_NoUnstickUnderLiveLease ==
    [][\A j \in DOMAIN jobs :
         jobs[j].status = "sending" /\ jobs'[j].status = "processing_batch"
         => ~LiveLeaseFor(j)]_vars

\* C27: every broadcastTx call of the batch broadcaster spends a token of
\* its own: the call is made only after a take(1) that returned after the
\* transaction was built, that take serves this one call, and the bucket
\* hands out tokens to nobody but a broadcaster waiting in take(1).
C27_TokenBeforeBroadcast ==
    /\ [][\A p \in Procs :
            pc[p] = "broadcast" /\ pc'[p] \in {"markSent", "catchUtxo"}
            => cur[p].token /\ ~cur'[p].token]_vars
    /\ [][\A p \in Procs :
            cur'[p].token /\ ~cur[p].token
            => pc[p] = "take" /\ taker.pc = "idle" /\ pc'[p] = "broadcast"]_vars
    /\ [][takenAt' # takenAt
            => /\ taker.n = 1
               /\ \E p \in Procs : pc[p] = "take"
               /\ tokens' <= tokens + (ms - lastRefillMs) * BucketCapacity - TokenUnit]_vars

\* The broadcaster has broadcast with a token that the bucket handed out
\* after the clock had moved on.
C27_Witness ==
    /\ pc["w1"] = "markSent"
    /\ \E t \in 1..MaxMs : takenAt[t] = 1

\* C28: a new bucket holds capacity tokens; the token count stays within
\* [0, capacity] whatever take, available and reset calls are made (refill
\* runs inside take and available); and take(n) returns only from a pass
\* of its loop in which the refilled bucket holds at least n tokens, of
\* which it removes exactly n.
C28_BucketBounds ==
    /\ tokens = CapacityUnits
    /\ [](tokens \in 0..CapacityUnits)
    /\ [][taker.pc = "loop" /\ taker'.pc = "idle"
            => LET held == Refill(tokens, lastRefillMs, ms)[1]
               IN /\ held >= taker.n * TokenUnit
                  /\ tokens' = held - taker.n * TokenUnit]_vars

\* A take has returned after the clock moved on and left the bucket empty.
C28_Witness ==
    /\ taker.pc = "idle"
    /\ tokens = 0
    /\ \E t \in 1..MaxMs : takenAt[t] > 0

\* The error code that names the kind of a failure other than a mempool
\* conflict.
KindCode(e) ==
    IF e = "build" THEN "BuildError"
    ELSE IF e = "network" THEN "TransientNetwork"
    ELSE "PermanentReject"

\* C29: when building or broadcasting failed for a reason other than a
\* mempool conflict, the catch block's UTXO write leaves the row available
\* with its reservation cleared and dirty as it was, and its job write
\* leaves the job failed with the error code of that kind of failure.
C29_ReleaseAndFail ==
    [][\A p \in Procs :
         cur[p].err \in {"build", "network", "rejected"}
         => /\ pc[p] = "catchUtxo" /\ pc'[p] = "catchJob"
               => /\ utxos'[cur[p].utxo].status = "available"
                  /\ utxos'[cur[p].utxo].reservedUntil = NULL
                  /\ utxos'[cur[p].utxo].dirty = utxos[cur[p].utxo].dirty
            /\ pc[p] = "catchJob" /\ pc'[p] = "claim"
               => /\ jobs'[cur[p].job].status = "failed"
                  /\ jobs'[cur[p].job].err = KindCode(cur[p].err)]_vars

\* C30: no reservation, of the worker or of the pool manager, takes a row
\* whose dirty flag is set.
C30_DirtyNeverReserved ==
    [][\A u \in UtxoIds :
         utxos[u].status # "reserved" /\ utxos'[u].status = "reserved"
         => ~utxos[u].dirty]_vars

\* C31: every reserved row has reserved_until set, and a reservation, of
\* the worker or of the pool manager, sets it to the time of the reservation
\* plus the lease of 5 minutes.
C31_ReservedHasLease ==
    /\ [](\A u \in UtxoIds :
            utxos[u].status = "reserved" => utxos[u].reservedUntil # NULL)
    /\ [][\A u \in UtxoIds :
            utxos[u].status # "reserved" /\ utxos'[u].status = "reserved"
            => utxos'[u].reservedUntil = now + LEASE_MINUTES]_vars

\* C32: every spent row carries the id of the transaction that spent it,
\* whichever path marked it spent.
C32_SpentHasTxid ==
    \A u \in UtxoIds : utxos[u].status = "spent" => utxos[u].spentBy # NoTx

\* C33: with collectors running at once, no row is held by two collectBatch
\* statements, a job's batch id and batch_seq are written once and never
\* changed, and no two jobs share a (batch id, batch_seq) pair.
C33_OneBatchPerJob ==
    /\ [](\A j \in DOMAIN jobs : Cardinality(jobs[j].locks) <= 1)
    /\ [](\A j, k \in DOMAIN jobs :
            j # k /\ jobs[j].batch # 0 /\ jobs[j].batch = jobs[k].batch
            => jobs[j].seq # jobs[k].seq)
    /\ [][\A j \in DOMAIN jobs :
            jobs[j].batch # 0
            => jobs'[j].batch = jobs[j].batch /\ jobs'[j].seq = jobs[j].seq]_vars

\* Two collectBatch statements are in flight at once, each holding a job.
C33_Witness ==
    \E j, k \in DOMAIN jobs :
        \E l \in jobs[j].locks, m \in jobs[k].locks : l[1] # m[1]

\* The jobs with status queued.
QueuedSet == {j \in DOMAIN jobs : jobs[j].status = "queued"}

C35_SplitCooldown ==
    /\ [][\A r \in Runs :
            run[r].pc \in {"idle", "done"} /\ run'[r].pc = "select"
            => /\ Cardinality(units) < MinPool
               /\ lastSplitTime = NULL \/ rnow - lastSplitTime >= CooldownTicks]_vars
    /\ [](\A i, k \in DOMAIN splitLog :
            i < k /\ splitLog[i].ok /\ splitLog[k].ok
            => splitLog[k].at - splitLog[i].at >= CooldownTicks)

\* A run is still between the broadcast of split k and the return of
\* splitUtxo.
SplitInFlight(k) ==
    \E r \in Runs : run[r].txid = k /\ run[r].pc \in {"markSpent", "insert"}

\* The change rows that carry the txid of split k.
ChangeRowsOf(k) ==
    {i \in DOMAIN funds : funds[i].purpose = "change" /\ funds[i].txid = k}

\* C36: once a split has been broadcast successfully and splitUtxo is
\* through with it, the source row is spent and the pool has gained the
\* split's K publish rows and exactly one change row with the split's
\* txid; a run whose broadcast did not succeed changes no utxos row.
C36_SplitRows ==
    /\ [](\A k \in DOMAIN splitLog :
            splitLog[k].ok /\ ~SplitInFlight(k)
            => /\ funds[splitLog[k].src].status = "spent"
               /\ Cardinality(ChangeRowsOf(k)) = 1)
    /\ [](\A r \in Runs : run[r].pc = "done" => run[r].units = SplitK)
    /\ [][\A r \in Runs :
            run[r].pc = "broadcast" /\ run'[r].pc = "idle"
            => funds' = funds /\ units' = units]_vars

\* C37: a funding or change row is the input of at most one split
\* transaction that the replenisher builds and posts, whether runs
\* overlap, a statement after the broadcast fails, or the process is
\* restarted.
C37_OneSplitPerSource ==
    \A i, k \in DOMAIN splitLog :
        i # k => splitLog[i].src # splitLog[k].src

\* A broadcast call of either worker returns or throws.
BroadcastCall(p) ==
    /\ pc[p] \in {"broadcast", "sjBroadcast"}
    /\ pc'[p] \notin {pc[p], "down"}

\* C38: neither the batch worker nor the single-job worker broadcasts a
\* transaction for a job whose row is already sent or failed, also when
\* BullMQ delivers a job again and when both workers see the same job.
C38_NoBroadcastForSettledJob ==
    [][\A p \in Procs :
         BroadcastCall(p) => jobs[cur[p].job].status \notin {"sent", "failed"}]_vars

\* The jobs whose row is in status sending.
Sending == {j \in DOMAIN jobs : jobs[j].status = "sending"}

\* C39: with a single batch-worker process at most one job is in status
\* sending at any time, and a job in sending is the one the broadcaster is
\* processing.
C39_OneSendingJob ==
    /\ Cardinality(Sending) <= 1
    /\ \A j \in Sending : cur["w1"].job = j

\* C40: while time advances, a call take(n) with 0 < n <= capacity
\* returns, the first call as well as every later one, which the refill
\* serves; a call with n > capacity never returns.
C40_TakeReturns ==
    /\ \A n \in 1..BucketCapacity :
          (taker.pc # "idle" /\ taker.n = n) ~> (taker.pc = "idle")
    /\ [][taker.n > BucketCapacity => taker'.pc # "idle"]_vars

\* More tokens than the initial burst have been handed out, so a call was
\* served from refilled tokens, and a call for more than the capacity is
\* asleep at the end of the clock.
C40_Witness ==
    /\ TakenBetween(0, MaxMs) > BucketCapacity
    /\ taker.n > BucketCapacity
    /\ taker.pc = "sleep"
    /\ ms = MaxMs
====
